---- MODULE Spec2Model ----
(***************************************************************************)
(* Model of tweet_bot.py: one scheduled run fetches a news entry, checks   *)
(* it against the remote timeline and the local file posted_articles.json, *)
(* summarizes it, publishes it and records its hash.  Runs follow one      *)
(* another; only the file survives from run to run.                        *)
(*                                                                         *)
(* Text is a sequence of one-character strings.  A Python value that may   *)
(* be None is a sequence of length 0 (None) or 1 (the value).              *)
(***************************************************************************)
EXTENDS Integers, Sequences, FiniteSets, TLC

\* ------------------------------------------------------------------ bounds

\* Number of consecutive scheduled runs explored.
MaxRuns == 2
\* The count of summarization calls of a run saturates here.
SummarizeCap == 4
\* The count of executions of the OpenAI key check of a run saturates here.
KeyCheckCap == 2
\* Longest summary / link explored by the assembly specification.
MaxSummaryLen == 285
MaxLinkLen == 281

\* ------------------------------------------------------- program constants

TweetLimit == 280
EllipsisLen == 3
DescriptionLimit == 250
EntriesPerFeed == 5
PoolMaxAgeHours == 24
RecentMaxAgeHours == 12
TitleMatchMinLen == 10
TitleMatchPrefix == 30
SummarizeMaxAttempts == 3
HistoryMaxAttempts == 3
PublishMaxAttempts == 5
PublishWaitMultiplier == 60
PublishWaitMin == 60
PublishWaitMax == 3600

\* ------------------------------------------------------------ text helpers

Min(a, b) == IF a <= b THEN a ELSE b
Max(a, b) == IF a >= b THEN a ELSE b

\* s[:n] of Python: a negative n counts from the end.
PySliceTo(s, n) ==
    IF n >= 0 THEN SubSeq(s, 1, Min(n, Len(s)))
    ELSE SubSeq(s, 1, Max(Len(s) + n, 0))

IsSpace(c) == c \in {" ", "\n", "\t"}

RECURSIVE LStrip(_)
LStrip(s) == IF s # <<>> /\ IsSpace(Head(s)) THEN LStrip(Tail(s)) ELSE s

RECURSIVE RStrip(_)
RStrip(s) ==
    IF s # <<>> /\ IsSpace(s[Len(s)]) THEN RStrip(SubSeq(s, 1, Len(s) - 1)) ELSE s

\* str.strip()
Strip(s) == RStrip(LStrip(s))

\* ' '.join(s.split()): whitespace runs become one space, none at the ends.
RECURSIVE CollapseFrom(_, _)
CollapseFrom(s, pendingSpace) ==
    IF s = <<>> THEN <<>>
    ELSE IF IsSpace(Head(s)) THEN CollapseFrom(Tail(s), TRUE)
    ELSE (IF pendingSpace THEN <<" ">> ELSE <<>>) \o <<Head(s)>>
         \o CollapseFrom(Tail(s), FALSE)

CollapseWhitespace(s) == CollapseFrom(LStrip(s), FALSE)

LowerChar(c) ==
    CASE c = "A" -> "a"
      [] c = "B" -> "b"
      [] c = "Z" -> "z"
      [] OTHER -> c

\* str.lower()
Lower(s) == [i \in 1..Len(s) |-> LowerChar(s[i])]

\* sub in text
Contains(sub, text) ==
    \E i \in 0..(Len(text) - Len(sub)) : SubSeq(text, i + 1, i + Len(sub)) = sub

StartsWith(s, prefix) ==
    Len(s) >= Len(prefix) /\ SubSeq(s, 1, Len(prefix)) = prefix

EndsWith(s, suffix) ==
    Len(s) >= Len(suffix) /\ SubSeq(s, Len(s) - Len(suffix) + 1, Len(s)) = suffix

RECURSIVE Pow2(_)
Pow2(n) == IF n <= 0 THEN 1 ELSE 2 * Pow2(n - 1)

\* tenacity wait_exponential(multiplier, min, max) after failed attempt n.
WaitExponential(multiplier, lo, hi, n) ==
    Max(Max(0, lo), Min(multiplier * Pow2(n - 1), hi))

\* -------------------------------------------------------- persisted file

\* posted_articles.json: absent, a JSON array of hashes, or unparseable.
AbsentFile == [state |-> "absent", data |-> <<>>]
MalformedFile == [state |-> "malformed", data |-> <<>>]
JsonFile(list) == [state |-> "json", data |-> list]

\* set(data)
ToSet(list) == {list[i] : i \in 1..Len(list)}

\* list(posted): some fixed enumeration of the set.
RECURSIVE ToList(_)
ToList(S) ==
    IF S = {} THEN <<>>
    ELSE LET x == CHOOSE y \in S : TRUE IN <<x>> \o ToList(S \ {x})

\* hashlib.sha256(...).hexdigest(): distinct strings give distinct digests.
Sha256(s) == <<"sha256">> \o s

get_article_hash(news) == Sha256(news.title \o <<"|">> \o news.link)

\* readOK = FALSE: open() or json.load raises.
load_posted_articles(file, readOK) ==
    IF file.state = "absent" THEN {}
    ELSE IF file.state = "json" /\ readOK THEN ToSet(file.data)
    ELSE {}

WriteOutcomes == {"ok", "open_fails", "dump_fails"}

\* write = "open_fails": open(..., 'w') raises, the file is untouched;
\* write = "dump_fails": the file was truncated by open and the dump raised.
save_posted_article(file, article_hash, readOK, write) ==
    LET posted == load_posted_articles(file, readOK) \cup {article_hash}
    IN  CASE write = "ok" -> JsonFile(ToList(posted))
          [] write = "open_fails" -> file
          [] OTHER -> MalformedFile

\* The hash set a run finds in the file when it can read it.
PersistedSet(file) == load_posted_articles(file, TRUE)

\* ----------------------------------------------------------- assembling

\* generate_tweet_content, lines 273-278.
AssembleTweet(tweet_content, link) ==
    LET max_length == TweetLimit - Len(link) - 1
        content == IF Len(tweet_content) > max_length
                   THEN PySliceTo(tweet_content, max_length - EllipsisLen)
                        \o <<".", ".", ".">>
                   ELSE tweet_content
    IN  content \o <<"\n">> \o link

\* ------------------------------------------------------------- the feeds

\* The registry of feeds (two of the nine, in list order).
FeedNames == <<"BleepingComputer", "Dark Reading">>

\* What a feed serves: an entry as feedparser hands it over.  date names
\* the timestamp it carries, age its hours before now, broken an entry
\* whose processing raises.
RawEntry(title, link, description, date, age) ==
    [title |-> title, link |-> link, description |-> description,
     date |-> date, age |-> age, broken |-> FALSE]

RawA == RawEntry(<<"Z", "e", "r", "o">>, <<"a", "/", "1">>,
                 <<"x", " ", " ", "y">>, "published", 2)
RawB == RawEntry(<<" ", "B", "u", "g">>, <<"b", "/", "2">>, <<>>, "updated", 5)
RawStale == RawEntry(<<"O", "l", "d">>, <<"c", "/", "3">>, <<>>, "published", 30)

\* requests.get raised (status 0), a non-200 answer, or a parsed document.
FeedResponses ==
    { [status |-> 0, entries |-> <<>>],
      [status |-> 500, entries |-> <<>>],
      [status |-> 200, entries |-> <<>>],
      [status |-> 200, entries |-> <<RawA>>],
      [status |-> 200, entries |-> <<RawB>>],
      [status |-> 200, entries |-> <<RawStale, RawA, RawB>>] }

FeedSnapshots == [1..Len(FeedNames) -> FeedResponses]

\* Lines 141-166: the record appended to all_entries.
NormalizeEntry(raw, source) ==
    LET title == Strip(raw.title)
        description == IF raw.description = <<>> THEN title ELSE raw.description
    IN  [title |-> title,
         description |-> PySliceTo(CollapseWhitespace(description), DescriptionLimit),
         link |-> raw.link,
         source |-> source,
         age |-> raw.age]

\* Variant: the test of line 139 is left out.
RECURSIVE ProcessEntries_NoAgeTest(_, _)
ProcessEntries_NoAgeTest(entries, source) ==
    IF entries = <<>> THEN <<>>
    ELSE LET raw == Head(entries)
             rest == ProcessEntries_NoAgeTest(Tail(entries), source)
         IN  IF raw.broken \/ raw.date = "none" THEN rest
             ELSE <<NormalizeEntry(raw, source)>> \o rest

\* Lines 126-170: the entries of one feed that reach all_entries.
RECURSIVE ProcessEntries(_, _)
ProcessEntries(entries, source) ==
    IF entries = <<>> THEN <<>>
    ELSE LET raw == Head(entries)
             rest == ProcessEntries(Tail(entries), source)
         IN  IF raw.broken \/ raw.date = "none" THEN rest
             ELSE IF raw.age <= PoolMaxAgeHours
                  THEN <<NormalizeEntry(raw, source)>> \o rest
                  ELSE rest

\* Lines 102-174: one iteration of the loop over the feeds.
ProcessFeed(response, source) ==
    IF response.status # 200 THEN <<>>
    ELSE IF response.entries = <<>> THEN <<>>
    ELSE ProcessEntries(PySliceTo(response.entries, EntriesPerFeed), source)

RECURSIVE AggregateFrom(_, _)
AggregateFrom(snapshot, i) ==
    IF i > Len(FeedNames) THEN <<>>
    ELSE ProcessFeed(snapshot[i], FeedNames[i]) \o AggregateFrom(snapshot, i + 1)

\* all_entries after the loop.
Aggregate(snapshot) == AggregateFrom(snapshot, 1)

\* list.sort(key=published, reverse=True): stable, newest (least age) first.
RECURSIVE InsertNewestFirst(_, _)
InsertNewestFirst(e, sorted) ==
    IF sorted = <<>> THEN <<e>>
    ELSE IF e.age < Head(sorted).age THEN <<e>> \o sorted
    ELSE <<Head(sorted)>> \o InsertNewestFirst(e, Tail(sorted))

\* Variant: the sort of line 178 is left out.
SortNewestFirst_Unsorted(entries) == entries

RECURSIVE SortNewestFirst(_)
SortNewestFirst(entries) ==
    IF entries = <<>> THEN <<>>
    ELSE InsertNewestFirst(entries[Len(entries)],
                           SortNewestFirst(SubSeq(entries, 1, Len(entries) - 1)))

\* Hours the clock may have advanced between the reading of line 98, which
\* the recorded ages are taken from, and the reading of line 183.
Elapsed == 0..1

\* Line 183: the age is taken again, from a new reading of the clock.
IsRecent(e, elapsed) == e.age + elapsed <= RecentMaxAgeHours

RecentEntries(sorted, elapsed) == SelectSeq(sorted, LAMBDA e : IsRecent(e, elapsed))

\* The values fetch_cybersecurity_news may return for a state of the feeds:
\* <<>> is None, random.choice may return any recent entry.
fetch_cybersecurity_news(snapshot) ==
    LET all_entries == SortNewestFirst(Aggregate(snapshot))
        Selected(elapsed) ==
            LET recent_entries == RecentEntries(all_entries, elapsed)
            IN  IF recent_entries # <<>>
                THEN {<<recent_entries[i]>> : i \in 1..Len(recent_entries)}
                ELSE {<<all_entries[1]>>}
    IN  IF all_entries = <<>> THEN {<<>>}
        ELSE UNION {Selected(elapsed) : elapsed \in Elapsed}

\* Every value a call may return, over the states of the feeds.
FetchResults == UNION {fetch_cybersecurity_news(s) : s \in FeedSnapshots}

\* ------------------------------------------------------ the remote history

\* Texts of the account's recent posts, as get_users_tweets may return them.
TweetAboutA == <<"S", "\n", "a", "/", "1">>
TweetOther == <<"N", "e", "w", "s">>

Timelines == {<<>>, <<TweetOther>>, <<TweetOther, TweetAboutA>>}

\* What one call of the Twitter read API does.
HistoryResponses ==
    {[kind |-> "tweets", tweets |-> t] : t \in Timelines}
    \cup {[kind |-> k, tweets |-> <<>>] :
            k \in {"TooManyRequests", "TwitterServerError", "OtherError"}}

HistoryRetryable(kind) == kind \in {"TooManyRequests", "TwitterServerError"}

\* get_recent_tweets with its retry policy, at attempt n: "retry", a list of
\* texts, or the RetryError tenacity raises when the attempts are used up.
get_recent_tweets(response, n) ==
    IF response.kind = "tweets" THEN [kind |-> "return", tweets |-> response.tweets]
    ELSE IF ~HistoryRetryable(response.kind) THEN [kind |-> "return", tweets |-> <<>>]
    ELSE IF n < HistoryMaxAttempts THEN [kind |-> "retry", tweets |-> <<>>]
    ELSE [kind |-> "RetryError", tweets |-> <<>>]

\* Lines 340-358: the scan of the recent posts.
MatchesRecentTweet(recent_tweets, news) ==
    LET article_title == Lower(news.title)
        article_link == news.link
    IN  \E i \in 1..Len(recent_tweets) :
            LET tweet_text == Lower(recent_tweets[i])
            IN  \/ Contains(article_link, tweet_text)
                \/ /\ article_title # <<>>
                   /\ Len(article_title) > TitleMatchMinLen
                   /\ Contains(PySliceTo(article_title, TitleMatchPrefix), tweet_text)

\* Variant: the handlers of lines 359-369 re-raise instead of returning False.
is_article_already_posted_Reraises(got, news) ==
    IF got.kind = "RetryError" THEN "raise"
    ELSE IF got.tweets = <<>> THEN "not_duplicate"
    ELSE IF MatchesRecentTweet(got.tweets, news) THEN "duplicate"
    ELSE "not_duplicate"

\* is_article_already_posted on what get_recent_tweets gave: "duplicate",
\* "not_duplicate", or "raise" when an exception leaves the function.
is_article_already_posted(got, news) ==
    IF got.kind = "RetryError" THEN "not_duplicate"
    ELSE IF got.tweets = <<>> THEN "not_duplicate"
    ELSE IF MatchesRecentTweet(got.tweets, news) THEN "duplicate"
    ELSE "not_duplicate"

\* ------------------------------------------------------- the environment

\* The process environment: whether the four Twitter variables are set, and
\* the value of OPENAI_API_KEY (<<>> when unset or empty).
OpenAIKeys ==
    { <<>>,
      <<"x", "y", "z">>,
      <<" ", "s", "k", "-", "1">> }

Environments == [twitter : BOOLEAN, openai : OpenAIKeys]

\* Lines 481-483: the variables os.getenv finds missing.
MissingVars(e) == ~e.twitter \/ e.openai = <<>>

\* Lines 215-222: the check of the key generate_tweet_content makes.
OpenAIKeyAccepted(key) ==
    /\ key # <<>>
    /\ StartsWith(Strip(key), <<"s", "k", "-">>)

\* How the publish API answers the run's calls of create_tweet: the first
\* rateLimited calls raise TooManyRequests, the calls after them do `then`.
PublishPlans ==
    [rateLimited : 0..PublishMaxAttempts,
     then : {"ok", "TwitterServerError", "OtherError"}]

\* What the call number n of the run does.
PublishAnswer(plan, n) == IF n <= plan.rateLimited THEN "TooManyRequests" ELSE plan.then

\* Texts the completion API may return.
Summaries == { <<" ", "S", "\n">> }

\* Variant: the policy of line 374 retries server errors as well.
PostTweetRetryable_ServerErrorsToo(exc) ==
    exc \in {"TooManyRequests", "TwitterServerError"}

\* Line 374: the exceptions post_tweet's policy retries.
PostTweetRetryable(exc) == exc = "TooManyRequests"

\* Line 373.
PostTweetWait(n) ==
    WaitExponential(PublishWaitMultiplier, PublishWaitMin, PublishWaitMax, n)

\* Lines 485-492: the handler of the entry point that takes exc.  The first
\* handler takes tweepy's TooManyRequests and nothing else; tenacity's
\* RetryError is not a subclass of it.
MainBranch(exc) ==
    IF exc = "none" THEN "none"
    ELSE IF exc = "TooManyRequests" THEN "rate_limit"
    ELSE "generic"

\* ------------------------------------------------------------------ state

VARIABLES
    pc,              \* position of the process
    runs,            \* runs started
    postedFile,      \* posted_articles.json
    env,             \* environment of the run
    plan,            \* answers of the publish API in the run
    attempt,         \* attempt number of post_tweet
    historyAttempt,  \* attempt number of get_recent_tweets
    historyFailed,   \* the last call of the Twitter read API raised
    genAttempt,      \* attempt number of generate_tweet_content
    news,            \* post_tweet's news
    genNews,         \* generate_tweet_content's news
    prompt,          \* what the completion request carried
    completion,      \* the text the completion API returned
    result,          \* generate_tweet_content's return value
    sent,            \* text of the last create_tweet call
    lastPublish,     \* what the last create_tweet call did
    tweetId,         \* create_tweet returned an id
    net,             \* kinds of network call made in the run
    keyChecks,       \* executions of the OpenAI key check in the run
    summarizeCalls,  \* completion requests in the run
    publishCalls,    \* create_tweet calls in the run
    waits,           \* sleeps of post_tweet's retry policy in the run
    outcome,         \* how the run ended
    endReason,       \* the return or raise that ended it
    raised,          \* the exception that reached the entry point
    seenPersisted,   \* hashes found in the file at the start of a run so far
    fileAtStart,     \* posted_articles.json as the run found it
    feeds,           \* what the feeds serve, where a specification fixes it
    timeline         \* the account's recent posts, where a specification fixes them

vars == <<pc, runs, postedFile, env, plan, attempt, historyAttempt, historyFailed, genAttempt,
          news, genNews, prompt, completion, result, sent, lastPublish, tweetId, net,
          keyChecks, summarizeCalls, publishCalls, waits, outcome, endReason,
          raised, seenPersisted, fileAtStart, feeds, timeline>>

runConfig == <<runs, env, plan, seenPersisted, fileAtStart, feeds, timeline>>
counters == <<keyChecks, summarizeCalls, publishCalls>>
publishState == <<sent, lastPublish, tweetId>>
ending == <<outcome, endReason, raised>>

\* No feed has been asked.
NoFeeds == [i \in 1..Len(FeedNames) |-> [status |-> 0, entries |-> <<>>]]

Init ==
    /\ pc = "idle"
    /\ runs = 0
    /\ postedFile = AbsentFile
    /\ env = [twitter |-> TRUE, openai |-> <<>>]
    /\ plan = [rateLimited |-> 0, then |-> "ok"]
    /\ attempt = 0
    /\ historyAttempt = 0
    /\ historyFailed = FALSE
    /\ genAttempt = 0
    /\ news = <<>>
    /\ genNews = <<>>
    /\ prompt = <<>>
    /\ completion = <<>>
    /\ result = <<>>
    /\ sent = <<>>
    /\ lastPublish = "none"
    /\ tweetId = FALSE
    /\ net = {}
    /\ keyChecks = 0
    /\ summarizeCalls = 0
    /\ publishCalls = 0
    /\ waits = <<>>
    /\ outcome = "none"
    /\ endReason = "none"
    /\ raised = "none"
    /\ seenPersisted = {}
    /\ fileAtStart = AbsentFile
    /\ feeds = NoFeeds
    /\ timeline = <<>>

\* The run ends: post_tweet returned (raised = "none") or exc reached the
\* entry point.
Finish(how, why, exc) ==
    /\ pc' = "done"
    /\ outcome' = how
    /\ endReason' = why
    /\ raised' = exc

\* Lines 371-376 and 432-434: exc leaves the body of post_tweet at attempt n.
PostTweetRaises(exc, why) ==
    IF PostTweetRetryable(exc)
    THEN IF attempt < PublishMaxAttempts
         THEN /\ pc' = "get_twitter_client"
              /\ attempt' = attempt + 1
              /\ waits' = Append(waits, PostTweetWait(attempt))
              /\ UNCHANGED ending
         ELSE /\ Finish("error", "publish_retries_exhausted", "RetryError")
              /\ UNCHANGED <<attempt, waits>>
    ELSE /\ Finish("error", why, exc)
         /\ UNCHANGED <<attempt, waits>>

\* Lines 207-212 and 283-285: exc leaves the body of generate_tweet_content.
GenerateRaises(exc, why) ==
    IF genAttempt < SummarizeMaxAttempts
    THEN /\ pc' = "generate_tweet_content"
         /\ genAttempt' = genAttempt + 1
         /\ UNCHANGED <<attempt, waits, ending>>
    ELSE /\ PostTweetRaises(exc, why)
         /\ UNCHANGED genAttempt

\* Lines 463-470: the process starts and sleeps its initial delay.
StartRun ==
    /\ pc = "idle"
    /\ runs < MaxRuns
    /\ runs' = runs + 1
    /\ env' \in Environments
    /\ plan' \in PublishPlans
    /\ seenPersisted' = seenPersisted \cup PersistedSet(postedFile)
    /\ pc' = "main"
    /\ UNCHANGED <<postedFile, attempt, historyAttempt, historyFailed, genAttempt, news, genNews,
                   prompt, completion, result, publishState, net, counters, waits, ending,
                   fileAtStart, feeds, timeline>>

\* Lines 472-485: the entry point checks the five variables.
MainCheckEnv ==
    /\ pc = "main"
    /\ IF MissingVars(env)
       THEN /\ Finish("error", "missing_variables", "ValueError")
            /\ UNCHANGED attempt
       ELSE /\ pc' = "get_twitter_client"
            /\ attempt' = 1
            /\ UNCHANGED ending
    /\ UNCHANGED <<runConfig, postedFile, historyAttempt, historyFailed, genAttempt, news, genNews,
                   prompt, completion, result, publishState, net, counters, waits>>

\* Line 380 (lines 28-52): an attempt of post_tweet starts, its locals fresh.
GetTwitterClient ==
    /\ pc = "get_twitter_client"
    /\ IF ~env.twitter
       THEN PostTweetRaises("ValueError", "missing_variables")
       ELSE /\ pc' = "check_rate_limits"
            /\ UNCHANGED <<attempt, waits, ending>>
    /\ historyAttempt' = 0
    /\ historyFailed' = FALSE
    /\ genAttempt' = 0
    /\ news' = <<>>
    /\ genNews' = <<>>
    /\ prompt' = <<>>
    /\ completion' = <<>>
    /\ result' = <<>>
    /\ sent' = <<>>
    /\ UNCHANGED <<runConfig, postedFile, lastPublish, tweetId, net, counters>>

\* Line 383 (lines 287-304): the result is ignored, an exception is swallowed.
CheckRateLimits ==
    /\ pc = "check_rate_limits"
    /\ net' = net \cup {"rate_limit_read"}
    /\ pc' = "fetch_news"
    /\ UNCHANGED <<runConfig, postedFile, attempt, historyAttempt, historyFailed, genAttempt, news,
                   genNews, prompt, completion, result, publishState, counters, waits, ending>>

\* Lines 386-389, results being what the call may return.
FetchNewsFrom(results) ==
    /\ pc = "fetch_news"
    /\ net' = net \cup {"feeds"}
    /\ \E r \in results :
        /\ news' = r
        /\ IF r = <<>>
           THEN /\ Finish("skipped", "no_news", "none")
                /\ UNCHANGED historyAttempt
           ELSE /\ pc' = "is_article_already_posted"
                /\ historyAttempt' = 1
                /\ UNCHANGED ending
    /\ UNCHANGED historyFailed
    /\ UNCHANGED <<runConfig, postedFile, attempt, genAttempt, genNews, prompt, completion,
                   result, publishState, counters, waits>>

\* Lines 386-389, the feeds in any of their states.
FetchNews == FetchNewsFrom(FetchResults)

\* Lines 392-394: one attempt of get_recent_tweets and, when it is the last,
\* the rest of is_article_already_posted; responses being what the Twitter
\* read API may do.
CheckRemoteHistoryOn(responses) ==
    /\ pc = "is_article_already_posted"
    /\ net' = net \cup {"history_read"}
    /\ \E response \in responses :
        LET got == get_recent_tweets(response, historyAttempt)
            verdict == is_article_already_posted(got, news[1])
        IN  /\ historyFailed' = (response.kind # "tweets")
            /\ IF got.kind = "retry"
               THEN /\ historyAttempt' = historyAttempt + 1
                    /\ UNCHANGED <<pc, genAttempt, attempt, waits, ending>>
               ELSE /\ UNCHANGED historyAttempt
                    /\ CASE verdict = "duplicate" ->
                              /\ Finish("skipped", "remote_duplicate", "none")
                              /\ UNCHANGED <<genAttempt, attempt, waits>>
                         [] verdict = "not_duplicate" ->
                              /\ pc' = "generate_tweet_content"
                              /\ genAttempt' = 1
                              /\ UNCHANGED <<attempt, waits, ending>>
                         [] OTHER ->
                              /\ PostTweetRaises(got.kind, "history_read_failed")
                              /\ UNCHANGED genAttempt
    /\ UNCHANGED <<runConfig, postedFile, news, genNews, prompt, completion, result,
                   publishState, counters>>

\* Lines 392-394, the read API doing any of the things it may.
CheckRemoteHistory == CheckRemoteHistoryOn(HistoryResponses)

\* Lines 214-224: an attempt of generate_tweet_content starts, its locals
\* fresh, with the check of the key.
GenerateCheckKey ==
    /\ pc = "generate_tweet_content"
    /\ keyChecks' = Min(keyChecks + 1, KeyCheckCap)
    /\ IF OpenAIKeyAccepted(env.openai)
       THEN /\ pc' = "generate_fetch"
            /\ UNCHANGED <<genAttempt, attempt, waits, ending>>
       ELSE GenerateRaises("ValueError", "invalid_openai_key")
    /\ genNews' = <<>>
    /\ prompt' = <<>>
    /\ completion' = <<>>
    /\ UNCHANGED <<runConfig, postedFile, historyAttempt, historyFailed, news, result,
                   publishState, net, summarizeCalls, publishCalls>>

\* Lines 227-231, and 398-400 when it returns None.
GenerateFetchNews ==
    /\ pc = "generate_fetch"
    /\ net' = net \cup {"feeds"}
    /\ \E r \in FetchResults :
        /\ genNews' = r
        /\ IF r = <<>>
           THEN Finish("skipped", "no_news_to_summarize", "none")
           ELSE /\ pc' = "local_check"
                /\ UNCHANGED ending
    /\ UNCHANGED <<runConfig, postedFile, attempt, historyAttempt, historyFailed, genAttempt, news,
                   prompt, completion, result, publishState, counters, waits>>

\* Lines 233-238, and 398-400 when it returns None.
GenerateLocalCheck ==
    /\ pc = "local_check"
    /\ \E readOK \in BOOLEAN :
        IF get_article_hash(genNews[1]) \in load_posted_articles(postedFile, readOK)
        THEN Finish("skipped", "local_duplicate", "none")
        ELSE /\ pc' = "summarize"
             /\ UNCHANGED ending
    /\ UNCHANGED <<runConfig, postedFile, attempt, historyAttempt, historyFailed, genAttempt, news,
                   genNews, prompt, completion, result, publishState, net, counters, waits>>

\* Lines 240-269: the completion request.
Summarize ==
    /\ pc = "summarize"
    /\ net' = net \cup {"completion"}
    /\ summarizeCalls' = Min(summarizeCalls + 1, SummarizeCap)
    /\ prompt' = <<[title |-> genNews[1].title, source |-> genNews[1].source,
                    description |-> genNews[1].description]>>
    /\ \E answer \in {<<>>} \cup {<<s>> : s \in Summaries} :
        IF answer = <<>>
        THEN /\ GenerateRaises("OpenAIError", "summarization_failed")
             /\ UNCHANGED completion
        ELSE /\ completion' = answer
             /\ pc' = "assemble"
             /\ UNCHANGED <<genAttempt, attempt, waits, ending>>
    /\ UNCHANGED <<runConfig, postedFile, historyAttempt, historyFailed, news, genNews, result,
                   publishState, keyChecks, publishCalls>>

\* Lines 271-281, and 401-407: the text and the hash post_tweet receives.
Assemble ==
    /\ pc = "assemble"
    /\ result' = <<AssembleTweet(Strip(completion[1]), genNews[1].link),
                   get_article_hash(genNews[1])>>
    /\ pc' = "create_tweet"
    /\ UNCHANGED <<runConfig, postedFile, attempt, historyAttempt, historyFailed, genAttempt, news,
                   genNews, prompt, completion, publishState, net, counters, waits,
                   ending>>

\* Variant: line 416 placed before line 411, the hash recorded before the call.
CreateTweet_RecordsFirst ==
    /\ pc = "create_tweet"
    /\ net' = net \cup {"publish"}
    /\ publishCalls' = publishCalls + 1
    /\ sent' = <<result[1]>>
    /\ postedFile' = save_posted_article(postedFile, result[2], TRUE, "ok")
    /\ LET answer == PublishAnswer(plan, publishCalls + 1)
       IN  /\ lastPublish' = answer
           /\ IF answer = "ok"
              THEN /\ tweetId' = TRUE
                   /\ pc' = "save_posted_article"
                   /\ UNCHANGED <<attempt, waits, ending>>
              ELSE /\ PostTweetRaises(answer, "publish_failed")
                   /\ UNCHANGED tweetId
    /\ UNCHANGED <<runConfig, historyAttempt, historyFailed, genAttempt, news, genNews,
                   prompt, completion, result, keyChecks, summarizeCalls>>

\* Lines 409-413 and 422-430: the publish call.
CreateTweet ==
    /\ pc = "create_tweet"
    /\ net' = net \cup {"publish"}
    /\ publishCalls' = publishCalls + 1
    /\ sent' = <<result[1]>>
    /\ LET answer == PublishAnswer(plan, publishCalls + 1)
       IN  /\ lastPublish' = answer
           /\ IF answer = "ok"
              THEN /\ tweetId' = TRUE
                   /\ pc' = "save_posted_article"
                   /\ UNCHANGED <<attempt, waits, ending>>
              ELSE /\ PostTweetRaises(answer, "publish_failed")
                   /\ UNCHANGED tweetId
    /\ UNCHANGED <<runConfig, postedFile, historyAttempt, historyFailed, genAttempt, news, genNews,
                   prompt, completion, result, keyChecks, summarizeCalls>>

\* Variant: the handler of lines 454-456 is missing and the retry policy
\* takes any exception, so a failing write starts another attempt.
SavePostedArticle_WriteErrorRetried ==
    /\ pc = "save_posted_article"
    /\ \E readOK \in BOOLEAN, write \in WriteOutcomes :
        /\ postedFile' = IF result[2] # <<>>
                         THEN save_posted_article(postedFile, result[2], readOK, write)
                         ELSE postedFile
        /\ IF write = "ok" \/ result[2] = <<>>
           THEN /\ Finish("success", "posted", "none")
                /\ UNCHANGED <<attempt, waits>>
           ELSE IF attempt < PublishMaxAttempts
           THEN /\ pc' = "get_twitter_client"
                /\ attempt' = attempt + 1
                /\ waits' = Append(waits, PostTweetWait(attempt))
                /\ UNCHANGED ending
           ELSE /\ Finish("error", "publish_retries_exhausted", "RetryError")
                /\ UNCHANGED <<attempt, waits>>
    /\ UNCHANGED <<runConfig, historyAttempt, historyFailed, genAttempt, news, genNews,
                   prompt, completion, result, publishState, net, counters>>

\* Lines 414-420: the record, the delay and the return of the id.
SavePostedArticle ==
    /\ pc = "save_posted_article"
    /\ \E readOK \in BOOLEAN, write \in WriteOutcomes :
        postedFile' = IF result[2] # <<>>
                      THEN save_posted_article(postedFile, result[2], readOK, write)
                      ELSE postedFile
    /\ Finish("success", "posted", "none")
    /\ UNCHANGED <<runConfig, attempt, historyAttempt, historyFailed, genAttempt, news, genNews,
                   prompt, completion, result, publishState, net, counters, waits>>

\* Lines 485-492: the process ends; nothing but the file outlives it.
Exit ==
    /\ pc = "done"
    /\ pc' = "idle"
    /\ env' = [twitter |-> TRUE, openai |-> <<>>]
    /\ plan' = [rateLimited |-> 0, then |-> "ok"]
    /\ attempt' = 0
    /\ historyAttempt' = 0
    /\ historyFailed' = FALSE
    /\ genAttempt' = 0
    /\ news' = <<>>
    /\ genNews' = <<>>
    /\ prompt' = <<>>
    /\ completion' = <<>>
    /\ result' = <<>>
    /\ sent' = <<>>
    /\ lastPublish' = "none"
    /\ tweetId' = FALSE
    /\ net' = {}
    /\ keyChecks' = 0
    /\ summarizeCalls' = 0
    /\ publishCalls' = 0
    /\ waits' = <<>>
    /\ outcome' = "none"
    /\ endReason' = "none"
    /\ raised' = "none"
    /\ fileAtStart' = postedFile
    /\ UNCHANGED <<runs, postedFile, seenPersisted, feeds, timeline>>

Next ==
    \/ StartRun
    \/ MainCheckEnv
    \/ GetTwitterClient
    \/ CheckRateLimits
    \/ FetchNews
    \/ CheckRemoteHistory
    \/ GenerateCheckKey
    \/ GenerateFetchNews
    \/ GenerateLocalCheck
    \/ Summarize
    \/ Assemble
    \/ CreateTweet
    \/ SavePostedArticle
    \/ Exit

Spec == Init /\ [][Next]_vars

\* ------------------------------------------- the assembly on long inputs

Text(n, c) == [i \in 1..n |-> c]

\* An entry as the feeds may serve it, with a link of n characters.
LongLinkEntry(n) ==
    [title |-> <<"Z", "e", "r", "o">>, description |-> <<"x", " ", "y">>,
     link |-> Text(n, "u"), source |-> FeedNames[1], age |-> 2]

\* A first attempt at the point where the completion API has answered: the
\* answer has any length up to MaxSummaryLen, the link up to MaxLinkLen.
InitAssemble ==
    /\ pc = "assemble"
    /\ runs = 1
    /\ postedFile = AbsentFile
    /\ env = [twitter |-> TRUE, openai |-> <<" ", "s", "k", "-", "1">>]
    /\ plan = [rateLimited |-> 0, then |-> "ok"]
    /\ attempt = 1
    /\ historyAttempt = 1
    /\ historyFailed = FALSE
    /\ genAttempt = 1
    /\ \E m \in 0..MaxLinkLen :
        /\ news = <<LongLinkEntry(m)>>
        /\ genNews = <<LongLinkEntry(m)>>
    /\ prompt = <<[title |-> genNews[1].title, source |-> genNews[1].source,
                   description |-> genNews[1].description]>>
    /\ \E n \in 0..MaxSummaryLen : completion = <<Text(n, "s")>>
    /\ result = <<>>
    /\ sent = <<>>
    /\ lastPublish = "none"
    /\ tweetId = FALSE
    /\ net = {"rate_limit_read", "feeds", "history_read", "completion"}
    /\ keyChecks = 1
    /\ summarizeCalls = 1
    /\ publishCalls = 0
    /\ waits = <<>>
    /\ outcome = "none"
    /\ endReason = "none"
    /\ raised = "none"
    /\ seenPersisted = {}
    /\ fileAtStart = AbsentFile
    /\ feeds = NoFeeds
    /\ timeline = <<>>

SpecAssemble == InitAssemble /\ [][Assemble]_vars

\* --------------------------------------------- the selection on fixed feeds

\* Most entries a feed serves in the states below, the one long feed apart.
MaxFeedLen == 2

RawEdge == RawEntry(<<"E", "d", "g", "e">>, <<"e", "/", "4">>, <<>>, "published", 12)
RawOlder == RawEntry(<<"P", "a", "s", "t">>, <<"p", "/", "5">>, <<>>, "updated", 13)
RawDay == RawEntry(<<"D", "a", "y">>, <<"d", "/", "6">>, <<>>, "published", 24)
RawUndated == RawEntry(<<"N", "o", "w">>, <<"n", "/", "7">>, <<>>, "none", 1)
RawBroken == [RawEntry(<<>>, <<"k", "/", "8">>, <<>>, "published", 1)
                 EXCEPT !.broken = TRUE]

\* The entries the short feeds are made of; the long feed also has an entry
\* with no timestamp and one whose processing raises.
RawEntries == {RawA, RawEdge, RawOlder, RawDay, RawStale}

\* A feed of six entries: only the first five are looked at (line 126).
LongFeed == <<RawStale, RawUndated, RawBroken, RawDay, RawOlder, RawA>>

FixedFeedResponses ==
    { [status |-> 0, entries |-> <<>>], [status |-> 500, entries |-> <<>>] }
    \cup { [status |-> 200, entries |-> es] :
             es \in UNION {[1..n -> RawEntries] : n \in 0..MaxFeedLen} }
    \cup { [status |-> 200, entries |-> LongFeed] }

FixedFeedSnapshots == [1..Len(FeedNames) -> FixedFeedResponses]

\* post_tweet at line 386 after n create_tweet calls of the run were answered
\* with TooManyRequests: the first attempt (n = 0) or the attempt the retry
\* policy started after the first call (n = 1).
AtFetch(n) ==
    /\ pc = "fetch_news"
    /\ runs = 1
    /\ postedFile = AbsentFile
    /\ env = [twitter |-> TRUE, openai |-> <<" ", "s", "k", "-", "1">>]
    /\ plan = [rateLimited |-> n, then |-> "ok"]
    /\ attempt = n + 1
    /\ historyAttempt = 0
    /\ historyFailed = FALSE
    /\ genAttempt = 0
    /\ news = <<>>
    /\ genNews = <<>>
    /\ prompt = <<>>
    /\ completion = <<>>
    /\ result = <<>>
    /\ sent = <<>>
    /\ lastPublish = IF n = 0 THEN "none" ELSE "TooManyRequests"
    /\ tweetId = FALSE
    /\ net = IF n = 0 THEN {"rate_limit_read"}
             ELSE {"rate_limit_read", "feeds", "history_read", "completion", "publish"}
    /\ keyChecks = n
    /\ summarizeCalls = n
    /\ publishCalls = n
    /\ waits = [k \in 1..n |-> PostTweetWait(k)]
    /\ outcome = "none"
    /\ endReason = "none"
    /\ raised = "none"
    /\ seenPersisted = {}
    /\ fileAtStart = AbsentFile
    /\ timeline = <<>>

\* A fetch of post_tweet, the feeds in one state for the length of the call.
InitFetch ==
    /\ AtFetch(0) \/ AtFetch(1)
    /\ feeds \in FixedFeedSnapshots

\* Lines 386-389 on the feeds as they stand.
FetchFixedFeeds == FetchNewsFrom(fetch_cybersecurity_news(feeds))

SpecFetch == InitFetch /\ [][FetchFixedFeeds]_vars

\* all_entries for the feeds as they stand, as a set.
Pool == LET all_entries == Aggregate(feeds)
        IN  {all_entries[i] : i \in 1..Len(all_entries)}

\* ------------------------------------------- the scan of a fixed timeline

\* Most posts in the timelines below.
MaxTimelineLen == 2

\* Titles of 0, 4, 10, 11 and 32 characters.
TitleOfTen == <<"Z", "e", "r", "o", " ", "d", "a", "y", " ", "A">>
TitleOfEleven == TitleOfTen \o <<"B">>
LongTitle == TitleOfEleven \o Text(TitleMatchPrefix - 11, "x") \o <<"y", "z">>

CandidateTitles == {<<>>, <<"Z", "e", "r", "o">>, TitleOfTen, TitleOfEleven, LongTitle}

CandidateLinks == {<<>>, <<"a", "/", "1">>, <<"A", "/", "1">>}

\* The entries whose duplicates are looked for.
Candidates ==
    { [title |-> t, description |-> t, link |-> l, source |-> FeedNames[1], age |-> 2] :
          t \in CandidateTitles, l \in CandidateLinks }

\* Texts of posts: about nothing in particular, ending with a link in either
\* case, or quoting a title or the start of one.
TweetTexts ==
    { TweetOther,
      TweetAboutA,
      <<"S", "\n", "A", "/", "1">>,
      <<"Z", "e", "r", "o">>,
      TitleOfTen,
      <<"R", "e", ":", " ">> \o TitleOfEleven,
      PySliceTo(LongTitle, TitleMatchPrefix) \o <<"!">> }

FixedTimelines == UNION {[1..n -> TweetTexts] : n \in 1..MaxTimelineLen}

\* The first attempt of a run at line 392, an entry selected, the account's
\* recent posts in one state for the length of the call.
InitMatch ==
    /\ pc = "is_article_already_posted"
    /\ runs = 1
    /\ postedFile = AbsentFile
    /\ env = [twitter |-> TRUE, openai |-> <<" ", "s", "k", "-", "1">>]
    /\ plan = [rateLimited |-> 0, then |-> "ok"]
    /\ attempt = 1
    /\ historyAttempt = 1
    /\ historyFailed = FALSE
    /\ genAttempt = 0
    /\ \E candidate \in Candidates : news = <<candidate>>
    /\ genNews = <<>>
    /\ prompt = <<>>
    /\ completion = <<>>
    /\ result = <<>>
    /\ sent = <<>>
    /\ lastPublish = "none"
    /\ tweetId = FALSE
    /\ net = {"rate_limit_read", "feeds"}
    /\ keyChecks = 0
    /\ summarizeCalls = 0
    /\ publishCalls = 0
    /\ waits = <<>>
    /\ outcome = "none"
    /\ endReason = "none"
    /\ raised = "none"
    /\ seenPersisted = {}
    /\ fileAtStart = AbsentFile
    /\ feeds = NoFeeds
    /\ timeline \in FixedTimelines

\* Lines 392-394, get_users_tweets returning the posts as they stand.
CheckFixedTimeline ==
    CheckRemoteHistoryOn({[kind |-> "tweets", tweets |-> timeline]})

SpecMatch == InitMatch /\ [][CheckFixedTimeline]_vars

\* ----------------------------------------------------------------- claims

PublishedHash == get_article_hash(genNews[1])

C2_NoRepublish ==
    sent # <<>> => PublishedHash \notin seenPersisted

\* C3: the entry checked against the remote history is the entry that is
\* summarized, whose link ends the published text and whose hash is recorded.
C3_SingleEntry ==
    sent # <<>> =>
        /\ news[1].title = genNews[1].title
        /\ news[1].link = genNews[1].link
        /\ prompt[1].title = genNews[1].title
        /\ EndsWith(sent[1], <<"\n">> \o genNews[1].link)
        /\ result[2] = PublishedHash

\* C4: the assembled text has at most 280 characters and ends with the
\* whole link.
C4_LengthBound ==
    result # <<>> =>
        /\ Len(result[1]) <= TweetLimit
        /\ EndsWith(result[1], genNews[1].link)

\* C5: a run with a missing or malformed credential ends in an error
\* without a network call, the failing check executed once.
C5_ConfigFailsFast ==
    (pc = "done" /\ (MissingVars(env) \/ ~OpenAIKeyAccepted(env.openai))) =>
        /\ outcome = "error"
        /\ net = {}
        /\ keyChecks <= 1

\* C6: a run that ends on the local hash check has not read the remote
\* history.
C6_LocalCheckFirst ==
    (pc = "done" /\ endReason = "local_duplicate") =>
        /\ outcome = "skipped"
        /\ "history_read" \notin net

\* C7: a run makes at most 5 create_tweet calls, a call after the first
\* follows a call that raised TooManyRequests, and a call that raised any
\* other error ends the run in an error.
C7_PublishRetryPolicy ==
    [][/\ publishCalls' <= PublishMaxAttempts
       /\ (publishCalls' > publishCalls /\ publishCalls >= 1)
             => lastPublish = "TooManyRequests"
       /\ lastPublish' \in {"TwitterServerError", "OtherError"}
             => (pc' = "done" /\ outcome' = "error" /\ raised' = lastPublish')
      ]_vars

\* Four rate-limit errors, then a server error on the fifth call.
C7_Witness ==
    /\ pc = "done"
    /\ publishCalls = PublishMaxAttempts
    /\ lastPublish = "TwitterServerError"

\* C8: when the first k create_tweet calls (1 <= k <= 4) raised
\* TooManyRequests and call k+1 would succeed, the run ends in success with
\* the published entry's hash in the file, after waits of 60, 120, ...
C8_RetryThenSuccess ==
    (/\ pc = "done"
     /\ plan.rateLimited \in 1..(PublishMaxAttempts - 1)
     /\ publishCalls >= plan.rateLimited
     /\ plan.then = "ok") =>
        /\ outcome = "success"
        /\ tweetId
        /\ PublishedHash \in PersistedSet(postedFile)
        /\ waits = SubSeq(<<60, 120, 240, 480>>, 1, plan.rateLimited)

\* C9: a run that ends on an empty pool or on the local hash check ends
\* skipped, without an exception, with no completion request and no
\* create_tweet call.
C9_SkipWithoutCalls ==
    (pc = "done"
     /\ endReason \in {"no_news", "no_news_to_summarize", "local_duplicate"}) =>
        /\ outcome = "skipped"
        /\ raised = "none"
        /\ summarizeCalls = 0
        /\ publishCalls = 0

\* C10: when the last call of the remote read raised (so every call of it
\* did), the duplicate check answers "not a duplicate": control passes to
\* generate_tweet_content, the local check of an unrecorded hash passes on
\* to the summary, and no run ends on the failure of the remote read.
C10_RemoteFailureDegrades ==
    [][/\ (pc = "is_article_already_posted" /\ pc' # pc /\ historyFailed')
             => (pc' = "generate_tweet_content" /\ raised' = "none")
       /\ (pc = "local_check" /\ historyFailed
           /\ PublishedHash \notin PersistedSet(postedFile))
             => pc' = "summarize"
       /\ endReason' # "history_read_failed"
      ]_vars

\* The remote read failed and the run went on to publish.
C10_Witness ==
    /\ pc = "done"
    /\ historyFailed
    /\ historyAttempt = HistoryMaxAttempts
    /\ outcome = "success"

\* C11: whatever the feeds serve, fetch_cybersecurity_news returns an entry of
\* at most 12 hours when the pool has one, else the newest entry of the pool
\* when the pool is not empty, and None exactly when the pool is empty.
C11_Selection ==
    pc # "fetch_news" =>
        LET recent == {e \in Pool : e.age <= RecentMaxAgeHours}
        IN  /\ recent # {} => news # <<>> /\ news[1] \in recent
            /\ (recent = {} /\ Pool # {}) =>
                    /\ news # <<>>
                    /\ news[1] \in Pool
                    /\ \A e \in Pool : news[1].age <= e.age
            /\ news = <<>> <=> Pool = {}

\* No entry of the pool is recent, the pool holds entries of different ages,
\* and the call returned the newest.
C11_Witness ==
    /\ pc # "fetch_news"
    /\ news # <<>>
    /\ news[1].age > RecentMaxAgeHours
    /\ \E e \in Pool : e.age > news[1].age
    /\ Aggregate(feeds)[1].age > news[1].age

\* C12: every entry of the pool is at most 24 hours old, every entry
\* random.choice may be given is at most 12 hours old, and so the entry
\* fetch_cybersecurity_news returns is at most 24 hours old.
C12_AgeBounds ==
    /\ \A e \in Pool : e.age <= PoolMaxAgeHours
    /\ LET all_entries == SortNewestFirst(Aggregate(feeds))
       IN  \A elapsed \in Elapsed :
               LET recent_entries == RecentEntries(all_entries, elapsed)
               IN  \A i \in 1..Len(recent_entries) :
                       recent_entries[i].age <= RecentMaxAgeHours
    /\ (pc # "fetch_news" /\ news # <<>>) => news[1].age <= PoolMaxAgeHours

\* A feed served an entry older than 24 hours among its first five, and the
\* call returned an entry of exactly 24 hours.
C12_Witness ==
    /\ pc # "fetch_news"
    /\ news # <<>>
    /\ news[1].age = PoolMaxAgeHours
    /\ \E i \in 1..Len(FeedNames) :
           /\ feeds[i].status = 200
           /\ \E k \in 1..Min(Len(feeds[i].entries), EntriesPerFeed) :
                  feeds[i].entries[k].age > PoolMaxAgeHours

\* C13: a feed that fails (no answer, an answer other than 200, a document
\* that does not parse) and an entry that fails do not end the aggregation:
\* whichever feeds fail, the pool holds every entry of at most 24 hours among
\* the first five of each feed that answered; and when every feed fails the
\* pool is empty and the run ends with no news, no completion request and no
\* create_tweet call made.
C13_FailuresDoNotAbort ==
    /\ \A i \in 1..Len(FeedNames) :
           feeds[i].status = 200 =>
               \A k \in 1..Min(Len(feeds[i].entries), EntriesPerFeed) :
                   LET raw == feeds[i].entries[k]
                   IN  (~raw.broken /\ raw.date # "none" /\ raw.age <= PoolMaxAgeHours)
                           => NormalizeEntry(raw, FeedNames[i]) \in Pool
    /\ (\A i \in 1..Len(FeedNames) : feeds[i].status # 200) =>
           /\ Pool = {}
           /\ pc # "fetch_news" =>
                  /\ pc = "done"
                  /\ outcome = "skipped"
                  /\ endReason = "no_news"
                  /\ summarizeCalls = 0
                  /\ publishCalls = 0

\* C14: a run makes at most 3 completion requests, and a run that ends
\* because the requests failed ends in an error, with no create_tweet call
\* made and posted_articles.json as the run found it.
C14_SummarizeBound ==
    /\ summarizeCalls <= SummarizeMaxAttempts
    /\ (pc = "done" /\ endReason = "summarization_failed") =>
           /\ outcome = "error"
           /\ publishCalls = 0
           /\ postedFile = fileAtStart

\* C15 as claimed: after a create_tweet call that raised a server error the
\* run has slept a backoff and goes on to another attempt instead of ending.
C15_ServerErrorRetried ==
    (lastPublish = "TwitterServerError" /\ publishCalls < PublishMaxAttempts) =>
        /\ pc # "done"
        /\ Len(waits) = publishCalls

\* C15 as the code has it: a server error raised by create_tweet is not
\* retried; the run ends there in an error, TwitterServerError reaching the
\* entry point, and the retry policy has slept only after the rate-limited
\* calls before it.
C15_ServerErrorEndsRun ==
    lastPublish = "TwitterServerError" =>
        /\ pc = "done"
        /\ outcome = "error"
        /\ endReason = "publish_failed"
        /\ raised = "TwitterServerError"
        /\ ~tweetId
        /\ Len(waits) = publishCalls - 1

\* The first create_tweet call of a run raised a server error.
C15_Witness ==
    /\ pc = "done"
    /\ publishCalls = 1
    /\ lastPublish = "TwitterServerError"
    /\ waits = <<>>

\* C16: a run whose 5 create_tweet calls all raised TooManyRequests ends in an
\* error that the entry point takes in its TooManyRequests handler.
C16_RateLimitBranch ==
    (pc = "done" /\ publishCalls = PublishMaxAttempts /\ lastPublish = "TooManyRequests") =>
        /\ outcome = "error"
        /\ MainBranch(raised) = "rate_limit"

\* C18: once create_tweet has returned an id, the run makes no further
\* create_tweet call: the record and the return end it.
C18_OneSuccessfulPublish ==
    [][tweetId => (publishCalls' <= publishCalls /\ pc' \in {"done", "idle"})]_vars

\* The second create_tweet call of a run returned an id, the record failed,
\* and the run ended with two calls made.
C18_Witness ==
    /\ pc = "done"
    /\ tweetId
    /\ lastPublish = "ok"
    /\ publishCalls = 2
    /\ outcome = "success"
    /\ PublishedHash \notin PersistedSet(postedFile)

\* C19: no step takes a hash out of posted_articles.json.
C19_OnlyGrows ==
    [][PersistedSet(postedFile) \subseteq PersistedSet(postedFile')]_vars

\* C17: for a non-empty list of recent posts, is_article_already_posted
\* reports a duplicate exactly when the lowercased text of some post contains
\* the lowercased link of the entry (a link with upper-case characters
\* matches, an empty link does not), or the title is longer than 10
\* characters and the text contains the first 30 characters of the
\* lowercased title.
C17_DuplicateVerdict ==
    pc # "is_article_already_posted" =>
        LET candidate == news[1]
            LinkRule(text) ==
                candidate.link # <<>> /\ Contains(Lower(candidate.link), text)
            TitleRule(text) ==
                /\ Len(candidate.title) > TitleMatchMinLen
                /\ Contains(PySliceTo(Lower(candidate.title), TitleMatchPrefix), text)
        IN  (pc = "done" /\ endReason = "remote_duplicate")
                <=> \E i \in 1..Len(timeline) :
                        LinkRule(Lower(timeline[i])) \/ TitleRule(Lower(timeline[i]))
====
